---- MODULE Spec2Model ----
(***************************************************************************)
(* A model of the dataflow engine of Tom-Lepsky/pipeline:                  *)
(*   - pipeline/pipeline.go : Pipeline (AddNode, Run, Wait, Stop)          *)
(*   - pipeline/node/node.go: Node (wiring, Run, the error forwarder)      *)
(*   - pipeline/util/util.go: FanIn and FanOut                             *)
(* Several state machines share the module; each has its own variables and *)
(* its own specification, and leaves the other machines' variables alone.  *)
(***************************************************************************)
EXTENDS Integers, Sequences, FiniteSets, Bags, TLC

(***************************************************************************)
(* Bounds of the pipeline machine.                                         *)
(***************************************************************************)
\* nodes that exist and may be added to the pipeline
NumNodes == 1
\* longest node list AddNode may build (a node may be added more than once)
MaxList == 1
\* successful Idle->Running switches on one pipeline
MaxRuns == 2

\* goroutines of the caller that invoke the pipeline's methods
Callers == {"c1", "c2"}
PNodes == 1..NumNodes

VARIABLES
    \* ---- Pipeline (pipeline.go:16-23)
    run,            \* p.run
    errChanClosed,  \* p.errChanClosed, the close guard
    chanClosed,     \* whether p.errChan itself is closed
    cancelFunc,     \* p.cancelFunc: 0 is nil, k cancels run context k
    nodes,          \* p.nodes
    wg,             \* the counter of p.wg
    \* ---- run contexts
    cancelled,      \* the run contexts that are cancelled
    nRuns,          \* run contexts derived so far
    \* ---- callers: the position of each inside the method it executes
    pc,             \* "idle", a place inside a method, or "ret"
    arg,            \* AddNode: the node; Run: the loop index
    cctx,           \* Run: the run context it derived
    res,            \* at "ret": <<method, "acted" or "noop">>
    afterRun,       \* Wait, Stop: Run had been called and had returned when
                    \* this call began
    \* ---- Node (node.go:29-37) and its goroutines
    started,        \* n.started (sync.Once) is consumed
    handlerRuns,    \* worker goroutines spawned, each invoking n.handler once
    nodeCtx,        \* the run context the worker was given
    wpc,            \* worker: "none", "handler", "done"
    proxy,          \* errors in the private error channel (capacity 1)
    proxyClosed,    \* the private error channel is closed
    fpc,            \* forwarder: "none", "recv", "send", "done", "panic"
    closes,         \* close(p.errChan) executed on the open channel
    closePanic,     \* close of a closed channel
    sendPanic       \* send on a closed channel

pvars == <<run, errChanClosed, chanClosed, cancelFunc, nodes, wg, cancelled,
           nRuns, pc, arg, cctx, res, afterRun, started,
           handlerRuns, nodeCtx, wpc, proxy, proxyClosed, fpc, closes,
           closePanic, sendPanic>>

(***************************************************************************)
(* Bounds of the merge (FanIn) machine.                                    *)
(***************************************************************************)
\* source streams given to FanIn
MaxSrc == 2
\* items one source emits before it is closed
MaxLen == 2

VARIABLES
    \* ---- FanIn (util.go:11-49)
    iK,             \* len(inputs)
    iN,             \* how many items each source emits: source k emits 1..iN[k]
    iSrc,           \* per source, the items not yet received from it
    iSrcClosed,     \* per source, whether it is closed
    iPc,            \* per source worker: "recv", "send", "done"
    iVal,           \* per source worker, the item it holds (0: none)
    iOut,           \* the buffer of the merged channel `out` (capacity iK)
    iOutClosed,     \* `out` is closed
    iWg,            \* the counter of FanIn's WaitGroup
    iGot,           \* the bag of items the reader of `out` received
    iCancelled,     \* ctx is cancelled
    iPanic          \* a send hit the closed `out`

ivars == <<iK, iN, iSrc, iSrcClosed, iPc, iVal, iOut, iOutClosed, iWg, iGot,
           iCancelled, iPanic>>

(***************************************************************************)
(* Bounds of the split (FanOut) machine.                                   *)
(***************************************************************************)
\* destinations given to FanOut
MaxDst == 2
\* items written to the stream FanOut returns
MaxIn == 4
\* buffer capacity of a destination channel
MaxCap == 1

VARIABLES
    \* ---- FanOut (util.go:56-106)
    oM,             \* len(outputs)
    oCap,           \* per destination, the capacity of its channel
    oN,             \* the input is the sequence 1..oN
    oIn,            \* the items the writer has still to write to `out`
    oBuf,           \* the buffer of `out` (capacity oM)
    oInClosed,      \* `out` is closed
    oPc,            \* the worker: "recv", "sweep", "block", "done"
    oVal,           \* the item the worker holds (0: none)
    oTry,           \* i, the turn of the sweep
    currChanIdx,    \* the rotation pointer, 0..oM-1
    oDst,           \* per destination, the buffer of its channel
    oReady,         \* per destination, its reader is blocked in a receive
    oRecvd,         \* per destination, what its reader received, in order
    oCloses,        \* per destination, how often the worker closed it
    oCancelled,     \* ctx is cancelled
    oSkipped,       \* some non-blocking send did not go through
    oBlocked,       \* the worker went into the blocking send
    oDropped        \* the items the worker gave up in the blocking send

ovars == <<oM, oCap, oN, oIn, oBuf, oInClosed, oPc, oVal, oTry, currChanIdx,
           oDst, oReady, oRecvd, oCloses, oCancelled, oSkipped, oBlocked,
           oDropped>>

(***************************************************************************)
(* Bounds of the wiring machine.                                           *)
(***************************************************************************)
\* ports of one direction on a node
MaxPorts == 2

\* node.go:13
maxIO == 64

\* the nodes that are wired
WNodes == {1, 2}

VARIABLES
    \* ---- Node (node.go:29-37): the wiring state, per node
    inputs,         \* n.inputs: per slot a channel, 0 is nil
    outputs,        \* n.outputs: per slot a channel
    inputsMask,     \* n.inputsMask
    outputsMask,    \* n.outputsMask
    wLast           \* the last wiring call and the error it returned

wvars == <<inputs, outputs, inputsMask, outputsMask, wLast>>

(***************************************************************************)
(* Bounds of the error forwarding machine.                                 *)
(***************************************************************************)
\* errors one handler writes to its private error channel
MaxErrs == 2

\* the started nodes that share the error channel
ENodes == {1, 2}

VARIABLES
    \* ---- Node.Run and Node.proxyErrChan (node.go:171-202, 255-266)
    eWrote,         \* per node, the errors its handler wrote, in order
    eHpc,           \* per node, the worker: "handler", "done"
    eProxy,         \* per node, the buffer of `proxy` (capacity 1)
    eProxyClosed,   \* per node, `proxy` is closed
    eFpc,           \* per node, the forwarder: "recv", "send", "done"
    eVal,           \* per node, the error the forwarder holds (0: none)
    eGot,           \* what the reader of the shared channel received
    eWg,            \* the counter of the shared WaitGroup
    eChanClosed,    \* the shared channel is closed
    ePanic          \* a send hit the closed shared channel

evars == <<eWrote, eHpc, eProxy, eProxyClosed, eFpc, eVal, eGot, eWg,
           eChanClosed, ePanic>>

VARIABLES
    \* ---- Node.Run on a node that is being wired (node.go:171-202)
    nStarted,       \* n.started (sync.Once) is consumed
    nWg,            \* the counter of the WaitGroup given to Node.Run
    nWorkers,       \* worker goroutines spawned
    nPanicked       \* some call of Node.Run panicked

svars == <<nStarted, nWg, nWorkers, nPanicked>>

vars == <<pvars, ivars, ovars, wvars, evars, svars>>

\* the pipeline machine at rest, for the specifications of the other machines
POff ==
    /\ run = FALSE /\ errChanClosed = FALSE /\ chanClosed = FALSE
    /\ cancelFunc = 0 /\ nodes = <<>> /\ wg = 0 /\ cancelled = {}
    /\ nRuns = 0 /\ pc = <<>> /\ arg = <<>> /\ cctx = <<>> /\ res = <<>>
    /\ afterRun = <<>> /\ started = <<>> /\ handlerRuns = <<>>
    /\ nodeCtx = <<>> /\ wpc = <<>> /\ proxy = <<>> /\ proxyClosed = <<>>
    /\ fpc = <<>> /\ closes = 0 /\ closePanic = FALSE /\ sendPanic = FALSE

\* the merge machine at rest
IOff ==
    /\ iK = 0 /\ iN = <<>> /\ iSrc = <<>> /\ iSrcClosed = <<>> /\ iPc = <<>>
    /\ iVal = <<>> /\ iOut = <<>> /\ iOutClosed = FALSE /\ iWg = 0
    /\ iGot = EmptyBag /\ iCancelled = FALSE /\ iPanic = FALSE

\* the split machine at rest
OOff ==
    /\ oM = 0 /\ oCap = <<>> /\ oN = 0 /\ oIn = <<>> /\ oInClosed = FALSE
    /\ oPc = "done" /\ oVal = 0 /\ oTry = 0 /\ currChanIdx = 0 /\ oDst = <<>>
    /\ oReady = <<>> /\ oRecvd = <<>> /\ oCloses = <<>> /\ oCancelled = FALSE
    /\ oSkipped = FALSE /\ oBlocked = FALSE /\ oBuf = <<>> /\ oDropped = <<>>

\* a nil error
Nil == [names |-> <<>>, base |-> "nil"]

\* no wiring call made yet
NoCall == [op |-> "none", node |-> 0, args |-> <<>>, err |-> Nil]

\* the wiring machine at rest
WOff ==
    /\ inputs = <<>> /\ outputs = <<>> /\ inputsMask = <<>>
    /\ outputsMask = <<>> /\ wLast = NoCall

\* the error forwarding machine at rest
EOff ==
    /\ eWrote = <<>> /\ eHpc = <<>> /\ eProxy = <<>> /\ eProxyClosed = <<>>
    /\ eFpc = <<>> /\ eVal = <<>> /\ eGot = <<>> /\ eWg = 0
    /\ eChanClosed = FALSE /\ ePanic = FALSE

\* no node is being started
SOff == nStarted = FALSE /\ nWg = 0 /\ nWorkers = 0 /\ nPanicked = FALSE

\* the variables of the machines other than the pipeline
others == <<ivars, ovars, wvars, evars, svars>>

\* the variables of the machines other than the merge
notI == <<pvars, ovars, wvars, evars, svars>>

\* the variables of the machines other than the split
notO == <<pvars, ivars, wvars, evars, svars>>

\* the variables of the machines other than the wiring
notW == <<pvars, ivars, ovars, evars, svars>>

\* the variables of the machines other than the error forwarding
notE == <<pvars, ivars, ovars, wvars, svars>>

\* the variables of the machines other than the wiring and the start of a
\* node
notS == <<pvars, ivars, ovars, evars>>

(***************************************************************************)
(* Pipeline                                                                *)
(***************************************************************************)
\* pipeline.New and node.New: an idle pipeline, nodes not started
PInit ==
    /\ run = FALSE
    /\ errChanClosed = FALSE
    /\ chanClosed = FALSE
    /\ cancelFunc = 0
    /\ nodes = <<>>
    /\ wg = 0
    /\ cancelled = {}
    /\ nRuns = 0
    /\ pc = [c \in Callers |-> "idle"]
    /\ arg = [c \in Callers |-> 0]
    /\ cctx = [c \in Callers |-> 0]
    /\ res = [c \in Callers |-> <<>>]
    /\ afterRun = [c \in Callers |-> FALSE]
    /\ started = [n \in PNodes |-> FALSE]
    /\ handlerRuns = [n \in PNodes |-> 0]
    /\ nodeCtx = [n \in PNodes |-> 0]
    /\ wpc = [n \in PNodes |-> "none"]
    /\ proxy = [n \in PNodes |-> 0]
    /\ proxyClosed = [n \in PNodes |-> FALSE]
    /\ fpc = [n \in PNodes |-> "none"]
    /\ closes = 0
    /\ closePanic = FALSE
    /\ sendPanic = FALSE

\* an unrecovered panic in any goroutine ends the process
crashed == closePanic \/ sendPanic

\* the method returns; r tells whether it acted or was a no-op
Ret(c, m, r) ==
    /\ pc' = [pc EXCEPT ![c] = "ret"]
    /\ res' = [res EXCEPT ![c] = <<m, r>>]

\* the method goes on at place l
Goto(c, l) ==
    /\ pc' = [pc EXCEPT ![c] = l]
    /\ res' = res

\* the caller has left the method and is free to call again
Return(c) ==
    /\ ~crashed
    /\ pc[c] = "ret"
    /\ pc' = [pc EXCEPT ![c] = "idle"]
    /\ arg' = [arg EXCEPT ![c] = 0]
    /\ cctx' = [cctx EXCEPT ![c] = 0]
    /\ res' = [res EXCEPT ![c] = <<>>]
    /\ afterRun' = [afterRun EXCEPT ![c] = FALSE]
    /\ UNCHANGED <<run, errChanClosed, chanClosed, cancelFunc, nodes, wg,
                   cancelled, nRuns, started, handlerRuns, nodeCtx, wpc,
                   proxy, proxyClosed, fpc, closes, closePanic, sendPanic>>
    /\ UNCHANGED others

\* calls of AddNode in flight that will still append
Appending == Cardinality({c \in Callers : pc[c] = "add_append"})

\* AddNode, the load of p.run
AddNodeLoad(c, n) ==
    /\ ~crashed
    /\ pc[c] = "idle"
    /\ Len(nodes) + Appending < MaxList
    /\ IF run
         THEN Ret(c, "AddNode", "noop") /\ arg' = arg
         ELSE Goto(c, "add_append") /\ arg' = [arg EXCEPT ![c] = n]
    /\ UNCHANGED <<run, errChanClosed, chanClosed, cancelFunc, nodes, wg,
                   cancelled, nRuns, cctx, afterRun, started,
                   handlerRuns, nodeCtx, wpc, proxy, proxyClosed, fpc,
                   closes, closePanic, sendPanic>>
    /\ UNCHANGED others

\* AddNode, the append
AddNodeAppend(c) ==
    /\ ~crashed
    /\ pc[c] = "add_append"
    /\ nodes' = Append(nodes, arg[c])
    /\ Ret(c, "AddNode", "acted")
    /\ UNCHANGED <<run, errChanClosed, chanClosed, cancelFunc, wg, cancelled,
                   nRuns, arg, cctx, afterRun, started,
                   handlerRuns, nodeCtx, wpc, proxy, proxyClosed, fpc,
                   closes, closePanic, sendPanic>>
    /\ UNCHANGED others

\* a Run that does not look at p.run
RunSwapsAlways == TRUE

\* p.run.CompareAndSwap(false, true): whether the swap happens
RunSwaps == ~run

\* Run, the compare-and-swap on p.run
RunCAS(c) ==
    /\ ~crashed
    /\ pc[c] = "idle"
    /\ IF RunSwaps
         THEN /\ nRuns < MaxRuns
              /\ run' = TRUE
              /\ nRuns' = nRuns + 1
              /\ cctx' = [cctx EXCEPT ![c] = nRuns + 1]
              /\ Goto(c, "run_ctx")
         ELSE /\ Ret(c, "Run", "noop")
              /\ UNCHANGED <<run, nRuns, cctx>>
    /\ UNCHANGED <<errChanClosed, chanClosed, cancelFunc, nodes, wg,
                   cancelled, arg, afterRun, started,
                   handlerRuns, nodeCtx, wpc, proxy, proxyClosed, fpc,
                   closes, closePanic, sendPanic>>
    /\ UNCHANGED others

\* Run, context.WithCancel and the store of p.cancelFunc
RunCtx(c) ==
    /\ ~crashed
    /\ pc[c] = "run_ctx"
    /\ cancelFunc' = cctx[c]
    /\ arg' = [arg EXCEPT ![c] = 1]
    /\ Goto(c, "run_loop")
    /\ UNCHANGED <<run, errChanClosed, chanClosed, nodes, wg, cancelled,
                   nRuns, cctx, afterRun, started, handlerRuns,
                   nodeCtx, wpc, proxy, proxyClosed, fpc, closes, closePanic,
                   sendPanic>>
    /\ UNCHANGED others

\* a start latch that fires on every call
OnceFiresAlways(n) == TRUE

\* n.started.Do: whether the function passed to Do runs
OnceFires(n) == ~started[n]

\* Node.Run on a node whose inputs are all bound. The function given to
\* started.Do does wg.Add(1) and spawns the worker; the worker goes straight
\* to proxyErrChan, which does wg.Add(1) and spawns the forwarder, and then
\* invokes the handler. The worker holds its own count all along, so the
\* counter is nonzero from the first Add to the handler's return.
NodeRun(n, ctx) ==
    IF OnceFires(n)
      THEN /\ started' = [started EXCEPT ![n] = TRUE]
           /\ wg' = wg + 2
           /\ handlerRuns' = [handlerRuns EXCEPT ![n] = @ + 1]
           /\ wpc' = [wpc EXCEPT ![n] = "handler"]
           /\ fpc' = [fpc EXCEPT ![n] = "recv"]
           /\ nodeCtx' = [nodeCtx EXCEPT ![n] = ctx]
      ELSE UNCHANGED <<started, wg, handlerRuns, wpc, fpc, nodeCtx>>

\* Run, one turn of the loop over p.nodes
RunLoop(c) ==
    /\ ~crashed
    /\ pc[c] = "run_loop"
    /\ IF arg[c] <= Len(nodes)
         THEN /\ NodeRun(nodes[arg[c]], cctx[c])
              /\ arg' = [arg EXCEPT ![c] = @ + 1]
              /\ Goto(c, "run_loop")
         ELSE /\ Ret(c, "Run", "acted")
              /\ UNCHANGED <<arg, started, wg, handlerRuns, wpc, fpc, nodeCtx>>
    /\ UNCHANGED <<run, errChanClosed, chanClosed, cancelFunc, nodes,
                   cancelled, nRuns, cctx, afterRun, proxy,
                   proxyClosed, closes, closePanic, sendPanic>>
    /\ UNCHANGED others

\* Run has switched the pipeline to Running and no caller is inside Run
RunHasReturned ==
    /\ nRuns > 0
    /\ \A c \in Callers : pc[c] \notin {"run_ctx", "run_loop"}

\* a close guard that lets every caller through
GuardSwapsAlways == TRUE

\* p.errChanClosed.CompareAndSwap(false, true): whether the swap happens
GuardSwaps == ~errChanClosed

\* close(p.errChan); closing a closed channel panics
CloseErrChan ==
    IF chanClosed
      THEN closePanic' = TRUE /\ UNCHANGED <<chanClosed, closes>>
      ELSE chanClosed' = TRUE /\ closes' = closes + 1 /\ closePanic' = closePanic

\* Wait, the load of p.run
WaitLoad(c) ==
    /\ ~crashed
    /\ pc[c] = "idle"
    /\ afterRun' = [afterRun EXCEPT ![c] = RunHasReturned]
    /\ IF run THEN Goto(c, "wait_wg") ELSE Ret(c, "Wait", "noop")
    /\ UNCHANGED <<run, errChanClosed, chanClosed, cancelFunc, nodes, wg,
                   cancelled, nRuns, arg, cctx, started,
                   handlerRuns, nodeCtx, wpc, proxy, proxyClosed, fpc,
                   closes, closePanic, sendPanic>>
    /\ UNCHANGED others

\* Wait, p.wg.Wait() returns
WaitWg(c) ==
    /\ ~crashed
    /\ pc[c] = "wait_wg"
    /\ wg = 0
    /\ Goto(c, "wait_guard")
    /\ UNCHANGED <<run, errChanClosed, chanClosed, cancelFunc, nodes, wg,
                   cancelled, nRuns, arg, cctx, afterRun, started, handlerRuns, nodeCtx, wpc, proxy, proxyClosed,
                   fpc, closes, closePanic, sendPanic>>
    /\ UNCHANGED others

\* Wait, the compare-and-swap on the close guard
WaitGuard(c) ==
    /\ ~crashed
    /\ pc[c] = "wait_guard"
    /\ IF GuardSwaps
         THEN errChanClosed' = TRUE /\ Goto(c, "wait_close")
         ELSE errChanClosed' = errChanClosed /\ Goto(c, "wait_store")
    /\ UNCHANGED <<run, chanClosed, cancelFunc, nodes, wg, cancelled, nRuns,
                   arg, cctx, afterRun, started, handlerRuns,
                   nodeCtx, wpc, proxy, proxyClosed, fpc, closes, closePanic,
                   sendPanic>>
    /\ UNCHANGED others

\* Wait, close(p.errChan)
WaitClose(c) ==
    /\ ~crashed
    /\ pc[c] = "wait_close"
    /\ CloseErrChan
    /\ Goto(c, "wait_store")
    /\ UNCHANGED <<run, errChanClosed, cancelFunc, nodes, wg, cancelled,
                   nRuns, arg, cctx, afterRun, started,
                   handlerRuns, nodeCtx, wpc, proxy, proxyClosed, fpc,
                   sendPanic>>
    /\ UNCHANGED others

\* Wait, p.run.Store(false)
WaitStore(c) ==
    /\ ~crashed
    /\ pc[c] = "wait_store"
    /\ run' = FALSE
    /\ Ret(c, "Wait", "acted")
    /\ UNCHANGED <<errChanClosed, chanClosed, cancelFunc, nodes, wg,
                   cancelled, nRuns, arg, cctx, afterRun, started, handlerRuns, nodeCtx, wpc, proxy, proxyClosed,
                   fpc, closes, closePanic, sendPanic>>
    /\ UNCHANGED others

\* p.run.CompareAndSwap(true, false): whether the swap happens
StopSwaps == run

\* Stop, the compare-and-swap on p.run
StopCAS(c) ==
    /\ ~crashed
    /\ pc[c] = "idle"
    /\ afterRun' = [afterRun EXCEPT ![c] = RunHasReturned]
    /\ IF StopSwaps
         THEN run' = FALSE /\ Goto(c, "stop_cancel")
         ELSE run' = run /\ Ret(c, "Stop", "noop")
    /\ UNCHANGED <<errChanClosed, chanClosed, cancelFunc, nodes, wg,
                   cancelled, nRuns, arg, cctx, started, handlerRuns, nodeCtx, wpc, proxy, proxyClosed,
                   fpc, closes, closePanic, sendPanic>>
    /\ UNCHANGED others

\* Stop, the call of p.cancelFunc when it is not nil
StopCancel(c) ==
    /\ ~crashed
    /\ pc[c] = "stop_cancel"
    /\ cancelled' = IF cancelFunc # 0 THEN cancelled \union {cancelFunc}
                                      ELSE cancelled
    /\ Goto(c, "stop_wg")
    /\ UNCHANGED <<run, errChanClosed, chanClosed, cancelFunc, nodes, wg,
                   nRuns, arg, cctx, afterRun, started,
                   handlerRuns, nodeCtx, wpc, proxy, proxyClosed, fpc,
                   closes, closePanic, sendPanic>>
    /\ UNCHANGED others

\* Stop, p.wg.Wait() returns
StopWg(c) ==
    /\ ~crashed
    /\ pc[c] = "stop_wg"
    /\ wg = 0
    /\ Goto(c, "stop_guard")
    /\ UNCHANGED <<run, errChanClosed, chanClosed, cancelFunc, nodes, wg,
                   cancelled, nRuns, arg, cctx, afterRun, started, handlerRuns, nodeCtx, wpc, proxy, proxyClosed,
                   fpc, closes, closePanic, sendPanic>>
    /\ UNCHANGED others

\* Stop, the compare-and-swap on the close guard
StopGuard(c) ==
    /\ ~crashed
    /\ pc[c] = "stop_guard"
    /\ IF GuardSwaps
         THEN errChanClosed' = TRUE /\ Goto(c, "stop_close")
         ELSE errChanClosed' = errChanClosed /\ Ret(c, "Stop", "acted")
    /\ UNCHANGED <<run, chanClosed, cancelFunc, nodes, wg, cancelled, nRuns,
                   arg, cctx, afterRun, started, handlerRuns,
                   nodeCtx, wpc, proxy, proxyClosed, fpc, closes, closePanic,
                   sendPanic>>
    /\ UNCHANGED others

\* Stop, close(p.errChan)
StopClose(c) ==
    /\ ~crashed
    /\ pc[c] = "stop_close"
    /\ CloseErrChan
    /\ Ret(c, "Stop", "acted")
    /\ UNCHANGED <<run, errChanClosed, cancelFunc, nodes, wg, cancelled,
                   nRuns, arg, cctx, afterRun, started,
                   handlerRuns, nodeCtx, wpc, proxy, proxyClosed, fpc,
                   sendPanic>>
    /\ UNCHANGED others

(***************************************************************************)
(* The goroutines of a node                                                *)
(***************************************************************************)
\* the handler writes an error to its private error stream, whose buffer
\* holds one error
HandlerErr(n) ==
    /\ ~crashed
    /\ wpc[n] = "handler"
    /\ proxy[n] < 1
    /\ proxy' = [proxy EXCEPT ![n] = @ + 1]
    /\ UNCHANGED <<run, errChanClosed, chanClosed, cancelFunc, nodes, wg,
                   cancelled, nRuns, pc, arg, cctx, res, afterRun,
                   started, handlerRuns, nodeCtx, wpc,
                   proxyClosed, fpc, closes, closePanic, sendPanic>>
    /\ UNCHANGED others

\* the handler returns; the deferred close(proxyErr) and wg.Done() run
HandlerReturn(n) ==
    /\ ~crashed
    /\ wpc[n] = "handler"
    /\ proxyClosed' = [proxyClosed EXCEPT ![n] = TRUE]
    /\ wg' = wg - 1
    /\ wpc' = [wpc EXCEPT ![n] = "done"]
    /\ UNCHANGED <<run, errChanClosed, chanClosed, cancelFunc, nodes,
                   cancelled, nRuns, pc, arg, cctx, res, afterRun,
                   started, handlerRuns, nodeCtx, proxy, fpc,
                   closes, closePanic, sendPanic>>
    /\ UNCHANGED others

\* a handler that races its channel operations against the run context
\* returns once the context is cancelled
HandlerCancelled(n) ==
    /\ nodeCtx[n] \in cancelled
    /\ HandlerReturn(n)

\* the forwarder, `for err := range proxy`: the next error, or the end of
\* the loop and the deferred wg.Done()
ForwardRecv(n) ==
    /\ ~crashed
    /\ fpc[n] = "recv"
    /\ \/ /\ proxy[n] > 0
          /\ proxy' = [proxy EXCEPT ![n] = @ - 1]
          /\ fpc' = [fpc EXCEPT ![n] = "send"]
          /\ wg' = wg
       \/ /\ proxy[n] = 0
          /\ proxyClosed[n]
          /\ fpc' = [fpc EXCEPT ![n] = "done"]
          /\ wg' = wg - 1
          /\ proxy' = proxy
    /\ UNCHANGED <<run, errChanClosed, chanClosed, cancelFunc, nodes,
                   cancelled, nRuns, pc, arg, cctx, res, afterRun,
                   started, handlerRuns, nodeCtx, wpc,
                   proxyClosed, closes, closePanic, sendPanic>>
    /\ UNCHANGED others

\* the forwarder, `errChan <- n.wrapError(err)` on the open channel: the
\* channel is unbuffered, the send completes when the reader receives
ForwardSend(n) ==
    /\ ~crashed
    /\ fpc[n] = "send"
    /\ ~chanClosed
    /\ fpc' = [fpc EXCEPT ![n] = "recv"]
    /\ UNCHANGED <<run, errChanClosed, chanClosed, cancelFunc, nodes, wg,
                   cancelled, nRuns, pc, arg, cctx, res, afterRun,
                   started, handlerRuns, nodeCtx, wpc, proxy,
                   proxyClosed, closes, closePanic, sendPanic>>
    /\ UNCHANGED others

\* the forwarder, `errChan <- n.wrapError(err)` on the closed channel: the
\* send panics
ForwardSendClosed(n) ==
    /\ ~crashed
    /\ fpc[n] = "send"
    /\ chanClosed
    /\ sendPanic' = TRUE
    /\ fpc' = [fpc EXCEPT ![n] = "panic"]
    /\ UNCHANGED <<run, errChanClosed, chanClosed, cancelFunc, nodes, wg,
                   cancelled, nRuns, pc, arg, cctx, res, afterRun,
                   started, handlerRuns, nodeCtx, wpc, proxy,
                   proxyClosed, closes, closePanic>>
    /\ UNCHANGED others

\* one step of a caller inside a method
CallerStep(c) ==
    \/ AddNodeAppend(c)
    \/ RunCtx(c)
    \/ RunLoop(c)
    \/ WaitWg(c)
    \/ WaitGuard(c)
    \/ WaitClose(c)
    \/ WaitStore(c)
    \/ StopCancel(c)
    \/ StopWg(c)
    \/ StopGuard(c)
    \/ StopClose(c)
    \/ Return(c)

\* a caller invokes a method
CallerCall(c) ==
    \/ \E n \in PNodes : AddNodeLoad(c, n)
    \/ RunCAS(c)
    \/ WaitLoad(c)
    \/ StopCAS(c)

\* one step of a node's forwarder that needs nobody else
ForwarderStep(n) ==
    \/ ForwardRecv(n)
    \/ ForwardSendClosed(n)

PNext ==
    \/ \E c \in Callers : CallerCall(c) \/ CallerStep(c)
    \/ \E n \in PNodes :
         \/ HandlerErr(n)
         \/ HandlerReturn(n)
         \/ HandlerCancelled(n)
         \/ ForwarderStep(n)
         \/ ForwardSend(n)

\* a new pipeline; the other machines are at rest
Init == PInit /\ IOff /\ OOff /\ WOff /\ EOff /\ SOff

Spec == Init /\ [][PNext]_vars

\* The scheduler runs every goroutine that can take a step, and a handler
\* that races its channel operations against the run context returns once
\* the context is cancelled. Nothing obliges the caller to invoke a method
\* or to read the error channel.
FairSpec ==
    /\ Spec
    /\ \A c \in Callers : WF_vars(CallerStep(c))
    /\ \A n \in PNodes : WF_vars(HandlerCancelled(n))
    /\ \A n \in PNodes : WF_vars(ForwarderStep(n))

(***************************************************************************)
(* Properties of the pipeline machine                                      *)
(***************************************************************************)
\* the caller is at the return of method m
Returned(c, m) == pc[c] = "ret" /\ res[c][1] = m

\* the caller is at the return of method m, which was a no-op (r = "noop")
\* or not (r = "acted")
ReturnedAs(c, m, r) == pc[c] = "ret" /\ res[c] = <<m, r>>

\* C1: whatever Wait and Stop calls race, close(p.errChan) is executed at
\* most once and never on the closed channel: a caller that finds the close
\* guard set skips the close.
SingleClose == closes <= 1 /\ ~closePanic

\* a Wait and a Stop that both went through the close guard have returned,
\* and the channel was closed once
SingleCloseWitness ==
    \E c, d \in Callers :
        /\ ReturnedAs(c, "Wait", "acted")
        /\ ReturnedAs(d, "Stop", "acted")
        /\ closes = 1

\* C2: however often Run is called on a node, by one pipeline Run after
\* another or by two at once, the node's handler is invoked exactly once:
\* never twice, and once as soon as the first Node.Run has happened.
IdempotentStart ==
    \A n \in PNodes :
        /\ handlerRuns[n] <= 1
        /\ started[n] => handlerRuns[n] = 1

\* the second Run of the pipeline has gone past a node that the first Run
\* started, and the handler was invoked once
IdempotentStartWitness ==
    \E c \in Callers :
        /\ pc[c] = "run_loop"
        /\ cctx[c] = 2
        /\ arg[c] > 1
        /\ nodeCtx[nodes[1]] = 1
        /\ handlerRuns[nodes[1]] = 1

\* the step is the first one of a Run call by c
BeginsRun(c) ==
    /\ pc[c] = "idle"
    /\ \/ pc'[c] = "run_ctx"
       \/ pc'[c] = "ret" /\ res'[c][1] = "Run"

\* the step is the first one of a Stop call by c
BeginsStop(c) ==
    /\ pc[c] = "idle"
    /\ \/ pc'[c] = "stop_cancel"
       \/ pc'[c] = "ret" /\ res'[c][1] = "Stop"

\* the step takes c to the return of its method and changes nothing of the
\* pipeline, of the run contexts, of the nodes or of the error channel
ReturnsAtOnce(c) ==
    /\ pc'[c] = "ret"
    /\ UNCHANGED <<run, errChanClosed, chanClosed, cancelFunc, nodes, wg,
                   cancelled, nRuns, started, handlerRuns, nodeCtx, wpc,
                   proxy, proxyClosed, fpc, closes>>

\* C10: a Run called while the pipeline is Running derives no context,
\* keeps the retained cancel function and starts no node; a Stop called
\* while the pipeline is Idle cancels nothing, closes nothing and leaves the
\* pipeline Idle. Either call returns at once.
NoOpOutsideSourceState ==
    [][\A c \in Callers :
         /\ (BeginsRun(c) /\ run) => ReturnsAtOnce(c)
         /\ (BeginsStop(c) /\ ~run) => ReturnsAtOnce(c)]_vars

\* a Run found the pipeline Running and a Stop found it Idle
NoOpWitness ==
    \E c, d \in Callers :
        /\ ReturnedAs(c, "Run", "noop")
        /\ ReturnedAs(d, "Stop", "noop")

\* C7: on a pipeline that Run has started, whose handlers return once the
\* run context is cancelled, a Stop that waits for the workers returns in
\* the end (a crash of the process and a further Run aside).
StopReturns ==
    \A c \in Callers :
        (pc[c] = "stop_wg" /\ afterRun[c] /\ nRuns = 1)
            ~> (pc[c] = "ret" \/ crashed \/ nRuns > 1)

\* C8: when a Wait that was called after Run had returned (and no other Run
\* was called since) returns, every worker and every forwarder that Run
\* started has finished and the error channel is closed.
WaitIsBarrier ==
    \A c \in Callers :
        (Returned(c, "Wait") /\ afterRun[c] /\ nRuns = 1)
            => /\ \A n \in PNodes :
                    started[n] => wpc[n] = "done" /\ fpc[n] = "done"
               /\ chanClosed

\* C9: no forwarder sends on the error channel once it is closed, and the
\* channel is closed only when every forwarder that was started has ended.
NoUseAfterClose ==
    /\ \A n \in PNodes : fpc[n] # "panic"
    /\ chanClosed => \A n \in PNodes : started[n] => fpc[n] = "done"

(***************************************************************************)
(* FanIn: one worker per source copies its items into `out`; a last        *)
(* goroutine closes `out` when every worker has ended.                     *)
(***************************************************************************)
ISources == 1..iK

\* the items 1..n in order
Upto(n) == [i \in 1..n |-> i]

\* the bag of the elements of a sequence
RECURSIVE SeqBag(_)
SeqBag(s) == IF s = <<>> THEN EmptyBag
                         ELSE SetToBag({Head(s)}) (+) SeqBag(Tail(s))

\* the sum of the bags f[1], ..., f[n]
RECURSIVE SumBags(_, _)
SumBags(f, n) == IF n = 0 THEN EmptyBag ELSE f[n] (+) SumBags(f, n - 1)

\* FanIn up to its return: `out` made with capacity len(inputs), one worker
\* spawned per source after wg.Add(1). Each source is a stream that emits
\* a finite sequence and is then closed by its producer.
IInit ==
    /\ iK \in 1..MaxSrc
    /\ iN \in [1..iK -> 0..MaxLen]
    /\ iSrc = [k \in 1..iK |-> Upto(iN[k])]
    /\ iSrcClosed = [k \in 1..iK |-> FALSE]
    /\ iPc = [k \in 1..iK |-> "recv"]
    /\ iVal = [k \in 1..iK |-> 0]
    /\ iOut = <<>>
    /\ iOutClosed = FALSE
    /\ iWg = iK
    /\ iGot = EmptyBag
    /\ iCancelled = FALSE
    /\ iPanic = FALSE

\* the producer of source k closes it; what it has sent stays receivable
ICloseSrc(k) ==
    /\ k \in ISources
    /\ ~iSrcClosed[k]
    /\ iSrcClosed' = [iSrcClosed EXCEPT ![k] = TRUE]
    /\ UNCHANGED <<iK, iN, iSrc, iPc, iVal, iOut, iOutClosed, iWg, iGot,
                   iCancelled, iPanic>>
    /\ UNCHANGED notI

\* the run context is cancelled
ICancel ==
    /\ ~iCancelled
    /\ iCancelled' = TRUE
    /\ UNCHANGED <<iK, iN, iSrc, iSrcClosed, iPc, iVal, iOut, iOutClosed, iWg,
                   iGot, iPanic>>
    /\ UNCHANGED notI

\* worker k, outer select, `case val, ok := <-ch`: an item, or the source is
\* closed and the worker returns (deferred wg.Done)
IRecv(k) ==
    /\ k \in ISources
    /\ iPc[k] = "recv"
    /\ \/ /\ iSrc[k] # <<>>
          /\ iVal' = [iVal EXCEPT ![k] = Head(iSrc[k])]
          /\ iSrc' = [iSrc EXCEPT ![k] = Tail(@)]
          /\ iPc' = [iPc EXCEPT ![k] = "send"]
          /\ iWg' = iWg
       \/ /\ iSrc[k] = <<>>
          /\ iSrcClosed[k]
          /\ iPc' = [iPc EXCEPT ![k] = "done"]
          /\ iWg' = iWg - 1
          /\ UNCHANGED <<iVal, iSrc>>
    /\ UNCHANGED <<iK, iN, iSrcClosed, iOut, iOutClosed, iGot, iCancelled,
                   iPanic>>
    /\ UNCHANGED notI

\* a context that never reads as done
ICtxDoneNever == FALSE

\* `case <-ctx.Done()` can be taken
ICtxDone == iCancelled

\* worker k, outer select, `case <-ctx.Done()`: return
IRecvCancel(k) ==
    /\ k \in ISources
    /\ iPc[k] = "recv"
    /\ ICtxDone
    /\ iPc' = [iPc EXCEPT ![k] = "done"]
    /\ iWg' = iWg - 1
    /\ UNCHANGED <<iK, iN, iSrc, iSrcClosed, iVal, iOut, iOutClosed, iGot,
                   iCancelled, iPanic>>
    /\ UNCHANGED notI

\* worker k, inner select, `case out <- val`: room in the buffer of `out`;
\* a send on a closed channel panics
ISend(k) ==
    /\ k \in ISources
    /\ iPc[k] = "send"
    /\ ~iPanic
    /\ IF iOutClosed
         THEN iPanic' = TRUE /\ UNCHANGED <<iOut, iVal, iPc>>
         ELSE /\ Len(iOut) < iK
              /\ iOut' = Append(iOut, iVal[k])
              /\ iVal' = [iVal EXCEPT ![k] = 0]
              /\ iPc' = [iPc EXCEPT ![k] = "recv"]
              /\ iPanic' = iPanic
    /\ UNCHANGED <<iK, iN, iSrc, iSrcClosed, iOutClosed, iWg, iGot, iCancelled>>
    /\ UNCHANGED notI

\* worker k, inner select, `case <-ctx.Done()`: return, the item is dropped
ISendCancel(k) ==
    /\ k \in ISources
    /\ iPc[k] = "send"
    /\ ICtxDone
    /\ iVal' = [iVal EXCEPT ![k] = 0]
    /\ iPc' = [iPc EXCEPT ![k] = "done"]
    /\ iWg' = iWg - 1
    /\ UNCHANGED <<iK, iN, iSrc, iSrcClosed, iOut, iOutClosed, iGot,
                   iCancelled, iPanic>>
    /\ UNCHANGED notI

\* a closer that does not wait for the workers
IWaitOverAtOnce == TRUE

\* wg.Wait() of the closing goroutine returns
IWaitOver == iWg = 0

\* the closing goroutine: wg.Wait(); close(out)
ICloseOut ==
    /\ ~iOutClosed
    /\ IWaitOver
    /\ iOutClosed' = TRUE
    /\ UNCHANGED <<iK, iN, iSrc, iSrcClosed, iPc, iVal, iOut, iWg, iGot,
                   iCancelled, iPanic>>
    /\ UNCHANGED notI

\* the reader of the merged stream receives an item
IConsume ==
    /\ iOut # <<>>
    /\ iGot' = iGot (+) SetToBag({Head(iOut)})
    /\ iOut' = Tail(iOut)
    /\ UNCHANGED <<iK, iN, iSrc, iSrcClosed, iPc, iVal, iOutClosed, iWg,
                   iCancelled, iPanic>>
    /\ UNCHANGED notI

INext ==
    \/ ICancel
    \/ ICloseOut
    \/ IConsume
    \/ \E k \in 1..MaxSrc :
         \/ ICloseSrc(k)
         \/ IRecv(k)
         \/ IRecvCancel(k)
         \/ ISend(k)
         \/ ISendCancel(k)

\* FanIn has returned; the other machines are at rest
FanInInit == IInit /\ POff /\ OOff /\ WOff /\ EOff /\ SOff

FanInSpec == FanInInit /\ [][INext]_vars

\* one step of source worker k
IWorkerStep(k) == IRecv(k) \/ IRecvCancel(k) \/ ISend(k) \/ ISendCancel(k)

\* The scheduler runs every goroutine that can take a step: the source
\* workers and the closing goroutine. Nothing obliges the sources to emit
\* or to close, the reader to receive, or the context to be cancelled.
FairFanInSpec ==
    /\ FanInSpec
    /\ \A k \in 1..MaxSrc : WF_vars(IWorkerStep(k))
    /\ WF_vars(ICloseOut)

(***************************************************************************)
(* Properties of FanIn                                                     *)
(***************************************************************************)
\* everything the sources emit
IEmitted == SumBags([k \in ISources |-> SeqBag(Upto(iN[k]))], iK)

\* the items held by the workers
IHeld == SumBags([k \in ISources |->
                    IF iVal[k] = 0 THEN EmptyBag ELSE SetToBag({iVal[k]})], iK)

\* the items still in the sources
IPending == SumBags([k \in ISources |-> SeqBag(iSrc[k])], iK)

\* C3: without cancellation no item is lost or duplicated on the way from
\* the sources to the reader of the merged stream; the merged stream is
\* closed only when every source is closed and drained and every worker has
\* ended; and once it is closed and read to its end the reader holds
\* exactly the multiset union of what the sources emitted.
FanInComplete ==
    ~iCancelled =>
        /\ ~iPanic
        /\ iGot (+) SeqBag(iOut) (+) IHeld (+) IPending = IEmitted
        /\ iOutClosed =>
             \A k \in ISources :
                 iSrcClosed[k] /\ iSrc[k] = <<>> /\ iPc[k] = "done"
        /\ (iOutClosed /\ iOut = <<>>) => iGot = IEmitted

\* two sources that emitted two items each were merged, without
\* cancellation, into a stream that is closed and read to its end
FanInWitness ==
    /\ ~iCancelled
    /\ iK = 2
    /\ iN = <<2, 2>>
    /\ iOutClosed
    /\ iOut = <<>>
    /\ iGot = SeqBag(<<1, 1, 2, 2>>)

(***************************************************************************)
(* FanOut: one worker takes the items written to `out` and hands each to   *)
(* one destination, round-robin, trying non-blocking sends first.          *)
(***************************************************************************)
ODests == 1..oM

\* outputs[i] for the rotation pointer i, which counts from 0
Dest(i) == i + 1

\* FanOut up to its return: `out` made with room for l items, the worker
\* spawned with currChanIdx := 0. The writer of `out` writes 1..oN and
\* closes it. Each destination is a channel of some capacity with a reader
\* of its own.
OInit ==
    /\ oM \in 1..MaxDst
    /\ oCap \in [1..oM -> 0..MaxCap]
    /\ oN \in 0..MaxIn
    /\ oIn = Upto(oN)
    /\ oBuf = <<>>
    /\ oInClosed = FALSE
    /\ oPc = "recv"
    /\ oVal = 0
    /\ oTry = 0
    /\ currChanIdx = 0
    /\ oDst = [j \in 1..oM |-> <<>>]
    /\ oReady = [j \in 1..oM |-> FALSE]
    /\ oRecvd = [j \in 1..oM |-> <<>>]
    /\ oCloses = [j \in 1..oM |-> 0]
    /\ oCancelled = FALSE
    /\ oSkipped = FALSE
    /\ oBlocked = FALSE
    /\ oDropped = <<>>

\* the writer sends its next item: `out` takes it when its buffer has room
OWrite ==
    /\ oIn # <<>>
    /\ Len(oBuf) < oM
    /\ oBuf' = Append(oBuf, Head(oIn))
    /\ oIn' = Tail(oIn)
    /\ UNCHANGED <<oM, oCap, oN, oInClosed, oPc, oVal, oTry, currChanIdx,
                   oDst, oReady, oRecvd, oCloses, oCancelled, oSkipped,
                   oBlocked, oDropped>>
    /\ UNCHANGED notO

\* the writer has written everything and closes `out`; what is in the
\* buffer stays receivable
OCloseIn ==
    /\ oIn = <<>>
    /\ ~oInClosed
    /\ oInClosed' = TRUE
    /\ UNCHANGED <<oM, oCap, oN, oIn, oBuf, oPc, oVal, oTry, currChanIdx,
                   oDst, oReady, oRecvd, oCloses, oCancelled, oSkipped,
                   oBlocked, oDropped>>
    /\ UNCHANGED notO

\* the run context is cancelled
OCancel ==
    /\ ~oCancelled
    /\ oCancelled' = TRUE
    /\ UNCHANGED <<oM, oCap, oN, oIn, oBuf, oInClosed, oPc, oVal, oTry,
                   currChanIdx, oDst, oReady, oRecvd, oCloses, oSkipped,
                   oBlocked, oDropped>>
    /\ UNCHANGED notO

\* the reader of destination j receives from the channel's buffer
OTake(j) ==
    /\ j \in ODests
    /\ oDst[j] # <<>>
    /\ oRecvd' = [oRecvd EXCEPT ![j] = Append(@, Head(oDst[j]))]
    /\ oDst' = [oDst EXCEPT ![j] = Tail(@)]
    /\ UNCHANGED <<oM, oCap, oN, oIn, oBuf, oInClosed, oPc, oVal, oTry,
                   currChanIdx, oReady, oCloses, oCancelled, oSkipped,
                   oBlocked, oDropped>>
    /\ UNCHANGED notO

\* the reader of destination j blocks in a receive on the empty channel
OWait(j) ==
    /\ j \in ODests
    /\ oDst[j] = <<>>
    /\ ~oReady[j]
    /\ oCloses[j] = 0
    /\ oReady' = [oReady EXCEPT ![j] = TRUE]
    /\ UNCHANGED <<oM, oCap, oN, oIn, oBuf, oInClosed, oPc, oVal, oTry,
                   currChanIdx, oDst, oRecvd, oCloses, oCancelled, oSkipped,
                   oBlocked, oDropped>>
    /\ UNCHANGED notO

\* a send to destination j can go through: a reader is blocked in a
\* receive, or the buffer has room
CanSend(j) == oReady[j] \/ Len(oDst[j]) < oCap[j]

\* `outputs[currChanIdx] <- val` goes through: the item goes to the blocked
\* reader, else into the buffer
Deliver(j) ==
    IF oReady[j]
      THEN /\ oRecvd' = [oRecvd EXCEPT ![j] = Append(@, oVal)]
           /\ oReady' = [oReady EXCEPT ![j] = FALSE]
           /\ oDst' = oDst
      ELSE /\ oDst' = [oDst EXCEPT ![j] = Append(@, oVal)]
           /\ UNCHANGED <<oRecvd, oReady>>

\* a deferred function that closes every output twice
CloseOutputsTwice ==
    /\ oCloses' = [j \in ODests |-> oCloses[j] + 2]
    /\ oReady' = [j \in ODests |-> FALSE]
    /\ oPc' = "done"

\* the deferred function: close(output) for every output; a reader blocked
\* in a receive is woken
CloseOutputs ==
    /\ oCloses' = [j \in ODests |-> oCloses[j] + 1]
    /\ oReady' = [j \in ODests |-> FALSE]
    /\ oPc' = "done"

\* a pointer that stays where it is
AdvanceStays(i) == i

\* currChanIdx = (currChanIdx + 1) % l
Advance(i) == (i + 1) % oM

\* a sweep that gives up the item
SweepEndDrops == "recv"

\* where the worker goes when the sweep has sent nothing: `if !send`, the
\* blocking select
SweepEnd == "block"

\* a context that always reads as done
CtxDoneAlways == TRUE

\* `case <-ctx.Done()` can be taken
CtxDone == oCancelled

\* outer select, `case val, ok := <-out`: an item, or `out` is closed and
\* drained and the worker returns
ORecv ==
    /\ oPc = "recv"
    /\ \/ /\ oBuf # <<>>
          /\ oVal' = Head(oBuf)
          /\ oBuf' = Tail(oBuf)
          /\ oTry' = 0
          /\ oPc' = "sweep"
          /\ UNCHANGED <<oCloses, oReady>>
       \/ /\ oBuf = <<>>
          /\ oInClosed
          /\ CloseOutputs
          /\ UNCHANGED <<oVal, oBuf, oTry>>
    /\ UNCHANGED <<oM, oCap, oN, oIn, oInClosed, currChanIdx, oDst, oRecvd,
                   oCancelled, oSkipped, oBlocked, oDropped>>
    /\ UNCHANGED notO

\* outer select, `case <-ctx.Done()`: return
ORecvCancel ==
    /\ oPc = "recv"
    /\ CtxDone
    /\ CloseOutputs
    /\ UNCHANGED <<oM, oCap, oN, oIn, oBuf, oInClosed, oVal, oTry,
                   currChanIdx, oDst, oRecvd, oCancelled, oSkipped, oBlocked,
                   oDropped>>
    /\ UNCHANGED notO

\* one turn of the sweep: a non-blocking send to outputs[currChanIdx], the
\* pointer advanced, the loop left when the send went through
OTry ==
    /\ oPc = "sweep"
    /\ currChanIdx' = Advance(currChanIdx)
    /\ IF CanSend(Dest(currChanIdx))
         THEN /\ Deliver(Dest(currChanIdx))
              /\ oVal' = 0
              /\ oTry' = 0
              /\ oPc' = "recv"
              /\ UNCHANGED <<oSkipped, oBlocked>>
         ELSE /\ oSkipped' = TRUE
              /\ oTry' = IF oTry + 1 < oM THEN oTry + 1 ELSE 0
              /\ oPc' = IF oTry + 1 < oM THEN "sweep" ELSE SweepEnd
              /\ oBlocked' = (oBlocked \/ oTry + 1 >= oM)
              /\ UNCHANGED <<oVal, oDst, oRecvd, oReady>>
    /\ UNCHANGED <<oM, oCap, oN, oIn, oBuf, oInClosed, oCloses, oCancelled,
                   oDropped>>
    /\ UNCHANGED notO

\* the blocking select, `case outputs[currChanIdx] <- val`
OBlockSend ==
    /\ oPc = "block"
    /\ CanSend(Dest(currChanIdx))
    /\ Deliver(Dest(currChanIdx))
    /\ currChanIdx' = Advance(currChanIdx)
    /\ oVal' = 0
    /\ oPc' = "recv"
    /\ UNCHANGED <<oM, oCap, oN, oIn, oBuf, oInClosed, oTry, oCloses,
                   oCancelled, oSkipped, oBlocked, oDropped>>
    /\ UNCHANGED notO

\* the blocking select, `case <-ctx.Done()`: return, the item is dropped
OBlockCancel ==
    /\ oPc = "block"
    /\ CtxDone
    /\ oDropped' = Append(oDropped, oVal)
    /\ oVal' = 0
    /\ CloseOutputs
    /\ UNCHANGED <<oM, oCap, oN, oIn, oBuf, oInClosed, oTry, currChanIdx,
                   oDst, oRecvd, oCancelled, oSkipped, oBlocked>>
    /\ UNCHANGED notO

ONext ==
    \/ OWrite
    \/ OCloseIn
    \/ OCancel
    \/ \E j \in 1..MaxDst : OTake(j) \/ OWait(j)
    \/ ORecv
    \/ ORecvCancel
    \/ OTry
    \/ OBlockSend
    \/ OBlockCancel

\* FanOut has returned; the other machines are at rest
FanOutInit == OInit /\ POff /\ IOff /\ WOff /\ EOff /\ SOff

FanOutSpec == FanOutInit /\ [][ONext]_vars

(***************************************************************************)
(* Properties of FanOut                                                    *)
(***************************************************************************)
\* what destination j has accepted, in order: received by its reader or
\* still in its buffer
Accepted(j) == oRecvd[j] \o oDst[j]

\* the bag of everything the destinations accepted
OAccepted == SumBags([j \in ODests |-> SeqBag(Accepted(j))], oM)

\* the item the worker holds
OHeld == IF oVal = 0 THEN EmptyBag ELSE SetToBag({oVal})

\* C4: without cancellation, whatever the capacities of the destinations
\* and the timing of their readers, no item written to the stream is lost
\* or duplicated: at any time each item is still to be taken, held by the
\* worker, or accepted by exactly one destination; when the worker has
\* ended every item has been accepted, and when the readers have drained
\* the destinations they hold exactly the input.
FanOutComplete ==
    ~oCancelled =>
        /\ SeqBag(oIn) (+) SeqBag(oBuf) (+) OHeld (+) OAccepted
             = SeqBag(Upto(oN))
        /\ oPc = "done" => OAccepted = SeqBag(Upto(oN))
        /\ (oPc = "done" /\ \A j \in ODests : oDst[j] = <<>>) =>
             SumBags([j \in ODests |-> SeqBag(oRecvd[j])], oM)
                 = SeqBag(Upto(oN))

\* four items went to two destinations, the worker had to fall back on the
\* blocking send, it has ended without cancellation and the readers have
\* drained both destinations
FanOutWitness ==
    /\ ~oCancelled
    /\ oM = 2
    /\ oN = 4
    /\ oBlocked
    /\ oPc = "done"
    /\ \A j \in ODests : oDst[j] = <<>> /\ oRecvd[j] # <<>>

\* the items the worker has passed on
ODelivered == oN - Len(oIn) - Len(oBuf) - (IF oVal = 0 THEN 0 ELSE 1)

\* the items among the first t whose position, counted from 0, is j modulo
\* the number of destinations
Share(j, t) == SelectSeq(Upto(t), LAMBDA v : (v - 1) % oM = j)

\* C5: as long as every non-blocking send went through, the k-th item
\* (counted from 0) went to destination k mod M: destination j holds, in
\* input order, the items at positions j, j+M, j+2M, ...
RoundRobin ==
    ~oSkipped => \A j \in ODests : Accepted(j) = Share(j - 1, ODelivered)

\* input [1,2,3,4], two destinations, no send refused: A got [1,3] and B
\* got [2,4]
RoundRobinWitness ==
    /\ ~oSkipped
    /\ oM = 2
    /\ oN = 4
    /\ oPc = "done"
    /\ Accepted(1) = <<1, 3>>
    /\ Accepted(2) = <<2, 4>>

(***************************************************************************)
(* Wiring: the slots and occupancy masks of the nodes, and the calls that  *)
(* bind channels to them. A call runs on its own; slot idx of the code is  *)
(* position idx + 1 of the sequence. An error is the sentinel with the     *)
(* names wrapError put in front of it, outermost first.                    *)
(***************************************************************************)
\* the channel New makes for output idx of node n
Made(n, idx) == 10 * n + idx

\* New for every node: inputs all nil, outputs made, masks zero. Node 1 is
\* made a source (no inputs) and node 2 a sink (no outputs).
WInit ==
    /\ \E ni \in [WNodes -> 0..MaxPorts], no \in [WNodes -> 0..MaxPorts] :
         /\ \A n \in WNodes : ni[n] <= maxIO /\ no[n] <= maxIO
         /\ ni[1] = 0 /\ no[2] = 0
         /\ inputs = [n \in WNodes |-> [i \in 1..ni[n] |-> 0]]
         /\ outputs = [n \in WNodes |-> [i \in 1..no[n] |-> Made(n, i - 1)]]
    /\ inputsMask = [n \in WNodes |-> 0]
    /\ outputsMask = [n \in WNodes |-> 0]
    /\ wLast = NoCall

\* the fields of the nodes, as the calls pass them on
Cur ==
    [inputs |-> inputs, outputs |-> outputs,
     inputsMask |-> inputsMask, outputsMask |-> outputsMask]

\* bit i of mask
Bit(mask, i) == (mask \div 2^i) % 2

\* mask | 1 << idx
setBit(mask, idx) == IF Bit(mask, idx) = 1 THEN mask ELSE mask + 2^idx

wrapError(n, err) == [err EXCEPT !.names = <<n>> \o @]

Sentinel(e) == [names |-> <<>>, base |-> e]

Ok(st) == [st |-> st, err |-> Nil]

Fail(st, err) == [st |-> st, err |-> err]

occupyInput(st, n, idx) ==
    [st EXCEPT !.inputsMask[n] = setBit(@, idx)]

\* an output that is never marked
occupyOutputSkipped(st, n, idx) == st

occupyOutput(st, n, idx) ==
    [st EXCEPT !.outputsMask[n] = setBit(@, idx)]

SetInput(st, n, idx, input) ==
    IF idx < 0 \/ idx >= Len(st.inputs[n])
      THEN Fail(st, wrapError(n, Sentinel("ErrInputIdxOutOfRange")))
      ELSE Ok(occupyInput([st EXCEPT !.inputs[n][idx + 1] = input], n, idx))

SetOutput(st, n, idx, output) ==
    IF idx < 0 \/ idx >= Len(st.outputs[n])
      THEN Fail(st, wrapError(n, Sentinel("ErrOutputIdxOutOfRange")))
      ELSE Ok(occupyOutput([st EXCEPT !.outputs[n][idx + 1] = output], n, idx))

\* a test that takes every slot for free
IsVacantAlways(mask, i) == TRUE

\* (mask & (1 << uint(i))) == 0
IsVacant(mask, i) == Bit(mask, i) = 0

\* the loop of vacantInput and vacantOutput from slot i on
RECURSIVE vacantFrom(_, _, _)
vacantFrom(mask, len, i) ==
    IF i >= len THEN -1
    ELSE IF IsVacant(mask, i) THEN i
    ELSE vacantFrom(mask, len, i + 1)

vacantInput(st, n) == vacantFrom(st.inputsMask[n], Len(st.inputs[n]), 0)

vacantOutput(st, n) == vacantFrom(st.outputsMask[n], Len(st.outputs[n]), 0)

\* the loop of AutowireInput from input[i] on (i counts from 1 here)
RECURSIVE AutowireInputFrom(_, _, _, _)
AutowireInputFrom(st, n, input, i) ==
    IF i > Len(input) THEN Ok(st)
    ELSE LET inIdx == vacantInput(st, n) IN
         IF inIdx = -1
           THEN Fail(st, wrapError(n, Sentinel("ErrInputsWired")))
           ELSE LET r == SetInput(st, n, inIdx, input[i]) IN
                IF r.err # Nil THEN Fail(r.st, wrapError(n, r.err))
                ELSE AutowireInputFrom(r.st, n, input, i + 1)

AutowireInput(st, n, input) == AutowireInputFrom(st, n, input, 1)

\* the loop of AutowireOutput from output[i] on
RECURSIVE AutowireOutputFrom(_, _, _, _)
AutowireOutputFrom(st, n, output, i) ==
    IF i > Len(output) THEN Ok(st)
    ELSE LET outIdx == vacantOutput(st, n) IN
         IF outIdx = -1
           THEN Fail(st, wrapError(n, Sentinel("ErrOutputsWired")))
           ELSE LET r == SetOutput(st, n, outIdx, output[i]) IN
                IF r.err # Nil THEN Fail(r.st, wrapError(n, r.err))
                ELSE AutowireOutputFrom(r.st, n, output, i + 1)

AutowireOutput(st, n, output) == AutowireOutputFrom(st, n, output, 1)

Connect(st, from, outIdx, to, inIdx) ==
    IF outIdx < 0 \/ outIdx >= Len(st.outputs[from])
      THEN Fail(st, wrapError(from, Sentinel("ErrOutputIdxOutOfRange")))
    ELSE IF inIdx < 0 \/ inIdx >= Len(st.inputs[to])
      THEN Fail(st, wrapError(to, Sentinel("ErrInputIdxOutOfRange")))
    ELSE Ok(occupyOutput(
              occupyInput(
                [st EXCEPT !.inputs[to][inIdx + 1] =
                               st.outputs[from][outIdx + 1]],
                to, inIdx),
              from, outIdx))

\* the loop of Autowire from to[i] on
RECURSIVE AutowireFrom(_, _, _, _)
AutowireFrom(st, from, to, i) ==
    IF i > Len(to) THEN Ok(st)
    ELSE LET outIdx == vacantOutput(st, from) IN
         IF outIdx = -1
           THEN Fail(st, wrapError(from, Sentinel("ErrOutputsWired")))
           ELSE LET inIdx == vacantInput(st, to[i]) IN
                IF inIdx = -1
                  THEN Fail(st, wrapError(to[i], Sentinel("ErrInputsWired")))
                  ELSE LET r == Connect(st, from, outIdx, to[i], inIdx) IN
                       IF r.err # Nil
                         THEN Fail(r.st, wrapError(from, r.err))
                         ELSE AutowireFrom(r.st, from, to, i + 1)

Autowire(st, from, to) == AutowireFrom(st, from, to, 1)

\* a call has returned r: the nodes are as it left them
Called(r, op, n, args) ==
    /\ inputs' = r.st.inputs
    /\ outputs' = r.st.outputs
    /\ inputsMask' = r.st.inputsMask
    /\ outputsMask' = r.st.outputsMask
    /\ wLast' = [op |-> op, node |-> n, args |-> args, err |-> r.err]
    /\ UNCHANGED notW

\* the indexes a caller tries, in range and out of it
Idxs == -1..MaxPorts

\* the lists of nodes a caller passes to Autowire
ToLists == UNION {[1..k -> WNodes] : k \in 0..(MaxPorts + 1)}

CallSetInput(n, idx, ch) ==
    /\ n \in WNodes
    /\ Called(SetInput(Cur, n, idx, ch), "SetInput", n, <<idx, ch>>)

CallSetOutput(n, idx, ch) ==
    /\ n \in WNodes
    /\ Called(SetOutput(Cur, n, idx, ch), "SetOutput", n, <<idx, ch>>)

CallAutowireInput(n, k) ==
    /\ n \in WNodes
    /\ Called(AutowireInput(Cur, n, Upto(k)), "AutowireInput", n, Upto(k))

CallAutowireOutput(n, k) ==
    /\ n \in WNodes
    /\ Called(AutowireOutput(Cur, n, Upto(k)), "AutowireOutput", n, Upto(k))

CallConnect(from, outIdx, to, inIdx) ==
    /\ from \in WNodes
    /\ to \in WNodes
    /\ Called(Connect(Cur, from, outIdx, to, inIdx), "Connect", from,
              <<outIdx, to, inIdx>>)

CallAutowire(from, to) ==
    /\ from \in WNodes
    /\ Called(Autowire(Cur, from, to), "Autowire", from, to)

WNext ==
    \/ \E n \in WNodes, idx \in Idxs : CallSetInput(n, idx, 1)
    \/ \E n \in WNodes, idx \in Idxs : CallSetOutput(n, idx, 1)
    \/ \E n \in WNodes, k \in 0..(MaxPorts + 1) : CallAutowireInput(n, k)
    \/ \E n \in WNodes, k \in 0..(MaxPorts + 1) : CallAutowireOutput(n, k)
    \/ \E from \in WNodes, to \in WNodes, outIdx \in Idxs, inIdx \in Idxs :
         CallConnect(from, outIdx, to, inIdx)
    \/ \E from \in WNodes, to \in ToLists : CallAutowire(from, to)

\* the nodes are made; the other machines are at rest
WireInit == WInit /\ POff /\ IOff /\ OOff /\ EOff /\ SOff

WireSpec == WireInit /\ [][WNext]_vars

(***************************************************************************)
(* Properties of the wiring                                                *)
(***************************************************************************)
\* the vacant slots among the first len: those whose occupancy bit is 0
VacantSet(mask, len) == {i \in 0..(len - 1) : Bit(mask, i) = 0}

\* the place of slot i among the vacant slots V, lowest index first
Rank(V, i) == Cardinality({j \in V : j < i}) + 1

\* the r-th lowest vacant slot
NthVacant(V, r) == CHOOSE i \in V : Rank(V, i) = r

Min(a, b) == IF a < b THEN a ELSE b

\* the exhaustion error of node n
Exhausted(n, e) == [names |-> <<n>>, base |-> e]

\* the slots new with mask newMask are the slots old with mask oldMask
\* after chans were bound, in order, to the lowest vacant slots: the r-th
\* channel sits in the r-th lowest vacant slot and that slot is occupied;
\* every other slot and bit is as it was
BoundLowest(old, oldMask, new, newMask, chans) ==
    LET V == VacantSet(oldMask, Len(old)) IN
    /\ Len(new) = Len(old)
    /\ newMask \div 2^Len(old) = oldMask \div 2^Len(old)
    /\ \A i \in 0..(Len(old) - 1) :
         IF i \in V /\ Rank(V, i) <= Len(chans)
           THEN new[i + 1] = chans[Rank(V, i)] /\ Bit(newMask, i) = 1
           ELSE new[i + 1] = old[i + 1] /\ Bit(newMask, i) = Bit(oldMask, i)

\* what a step that is AutowireInput(input...) on node n has to do
InputsAutowired(n, input) ==
    LET V == VacantSet(inputsMask[n], Len(inputs[n]))
        b == Min(Len(input), Cardinality(V))
    IN  /\ BoundLowest(inputs[n], inputsMask[n], inputs'[n], inputsMask'[n],
                       SubSeq(input, 1, b))
        /\ \A m \in WNodes \ {n} :
             inputs'[m] = inputs[m] /\ inputsMask'[m] = inputsMask[m]
        /\ outputs' = outputs /\ outputsMask' = outputsMask
        /\ wLast'.err = IF Len(input) > Cardinality(V)
                          THEN Exhausted(n, "ErrInputsWired") ELSE Nil

\* what a step that is AutowireOutput(output...) on node n has to do
OutputsAutowired(n, output) ==
    LET V == VacantSet(outputsMask[n], Len(outputs[n]))
        b == Min(Len(output), Cardinality(V))
    IN  /\ BoundLowest(outputs[n], outputsMask[n], outputs'[n],
                       outputsMask'[n], SubSeq(output, 1, b))
        /\ \A m \in WNodes \ {n} :
             outputs'[m] = outputs[m] /\ outputsMask'[m] = outputsMask[m]
        /\ inputs' = inputs /\ inputsMask' = inputsMask
        /\ wLast'.err = IF Len(output) > Cardinality(V)
                          THEN Exhausted(n, "ErrOutputsWired") ELSE Nil

\* what a step that is Autowire(from, to...) has to do: binding r takes the
\* r-th lowest vacant output of from and the next vacant input of to[r]; the
\* bindings stop at the first r for which either side has none left
NodesAutowired(from, to) ==
    LET VO == VacantSet(outputsMask[from], Len(outputs[from]))
        VI(m) == VacantSet(inputsMask[m], Len(inputs[m]))
        need(r) == Cardinality({q \in 1..r : to[q] = to[r]})
        fits(r) == r <= Cardinality(VO) /\ need(r) <= Cardinality(VI(to[r]))
        b == CHOOSE k \in 0..Len(to) :
               /\ \A r \in 1..k : fits(r)
               /\ k < Len(to) => ~fits(k + 1)
        turns(m) == SelectSeq(Upto(b), LAMBDA r : to[r] = m)
        chans(m) == [q \in 1..Len(turns(m)) |->
                       outputs[from][NthVacant(VO, turns(m)[q]) + 1]]
    IN  /\ \A m \in WNodes :
             BoundLowest(inputs[m], inputsMask[m], inputs'[m],
                         inputsMask'[m], chans(m))
        /\ outputs' = outputs
        /\ \A i \in 0..(Len(outputs[from]) - 1) :
             Bit(outputsMask'[from], i) =
               IF i \in VO /\ Rank(VO, i) <= b
                 THEN 1 ELSE Bit(outputsMask[from], i)
        /\ outputsMask'[from] \div 2^Len(outputs[from])
             = outputsMask[from] \div 2^Len(outputs[from])
        /\ \A m \in WNodes \ {from} : outputsMask'[m] = outputsMask[m]
        /\ wLast'.err =
             IF b = Len(to) THEN Nil
             ELSE IF b + 1 > Cardinality(VO)
               THEN Exhausted(from, "ErrOutputsWired")
               ELSE Exhausted(to[b + 1], "ErrInputsWired")

\* C6: every auto-wiring call binds its channels, in order, to the lowest
\* vacant slots, leaves every occupied slot and every other slot and mask
\* as they were, and returns the exhaustion error of the side that ran out
\* exactly when a binding finds no vacant slot; the bindings made before
\* that one, those of the same call included, stay, and the failing
\* binding changes nothing.
WiringExhaustion ==
    [][/\ wLast'.op = "AutowireInput" =>
            InputsAutowired(wLast'.node, wLast'.args)
       /\ wLast'.op = "AutowireOutput" =>
            OutputsAutowired(wLast'.node, wLast'.args)
       /\ wLast'.op = "Autowire" =>
            NodesAutowired(wLast'.node, wLast'.args)]_vars

\* AutowireInput with three channels on the unwired sink of two inputs: the
\* first two are bound to slots 0 and 1 and stay, the third fails
WiringExhaustionWitness ==
    /\ wLast.op = "AutowireInput"
    /\ wLast.node = 2
    /\ wLast.args = <<1, 2, 3>>
    /\ wLast.err = Exhausted(2, "ErrInputsWired")
    /\ inputs[2] = <<1, 2>>
    /\ inputsMask[2] = 3

(***************************************************************************)
(* Further properties of the pipeline                                      *)
(***************************************************************************)
\* a caller is inside Run, past the switch to Running
InsideRun == \E c \in Callers : pc[c] \in {"run_ctx", "run_loop"}

\* once Run has gone through the list, every node in the list of a Running
\* pipeline is one that was started
RunningNodesStarted ==
    (run /\ ~InsideRun) => \A i \in 1..Len(nodes) : started[nodes[i]]

\* C11: while the pipeline is Running no step changes the node list: an
\* AddNode leaves it as it is.
AddNodeIgnored == [][run => nodes' = nodes]_vars

\* the forwarder of node n is alive
ForwarderAlive(n) == fpc[n] \in {"recv", "send"}

\* C14: once the run context of a node is cancelled its forwarder does not
\* stay blocked: it ends, whatever the reader of the error channel does.
CancelUnblocks ==
    \A n \in PNodes :
        (ForwarderAlive(n) /\ nodeCtx[n] \in cancelled)
            ~> (~ForwarderAlive(n) \/ crashed)

(***************************************************************************)
(* Further properties of the wiring                                        *)
(***************************************************************************)
\* new is old with bit idx set and every other bit as it was
OneBitSet(old, new, idx) ==
    /\ \A i \in 0..MaxPorts :
         Bit(new, i) = IF i = idx THEN 1 ELSE Bit(old, i)
    /\ new \div 2^(MaxPorts + 1) = old \div 2^(MaxPorts + 1)

\* no slot and no mask of any node changes
NothingRewired ==
    /\ inputs' = inputs
    /\ outputs' = outputs
    /\ inputsMask' = inputsMask
    /\ outputsMask' = outputsMask

\* what a step that is Connect(from, outIdx, to, inIdx) has to do
Connected(from, outIdx, to, inIdx) ==
    IF outIdx < 0 \/ outIdx >= Len(outputs[from])
      THEN /\ wLast'.err = Exhausted(from, "ErrOutputIdxOutOfRange")
           /\ NothingRewired
    ELSE IF inIdx < 0 \/ inIdx >= Len(inputs[to])
      THEN /\ wLast'.err = Exhausted(to, "ErrInputIdxOutOfRange")
           /\ NothingRewired
    ELSE /\ wLast'.err = Nil
         /\ inputs'[to][inIdx + 1] = outputs[from][outIdx + 1]
         /\ \A m \in WNodes :
              /\ Len(inputs'[m]) = Len(inputs[m])
              /\ \A i \in 1..Len(inputs[m]) :
                   (m # to \/ i # inIdx + 1) => inputs'[m][i] = inputs[m][i]
         /\ outputs' = outputs
         /\ OneBitSet(inputsMask[to], inputsMask'[to], inIdx)
         /\ OneBitSet(outputsMask[from], outputsMask'[from], outIdx)
         /\ \A m \in WNodes \ {to} : inputsMask'[m] = inputsMask[m]
         /\ \A m \in WNodes \ {from} : outputsMask'[m] = outputsMask[m]

\* C12: Connect returns the output index-range error when outIdx is out of
\* range, else the input index-range error when inIdx is out of range, and
\* then changes no slot and no mask; otherwise it returns no error, to's
\* input slot inIdx is the channel in from's output slot outIdx, bit outIdx
\* of from's output mask and bit inIdx of to's input mask are set, and
\* nothing else changes.
ConnectContract ==
    [][wLast'.op = "Connect" =>
         Connected(wLast'.node, wLast'.args[1], wLast'.args[2],
                   wLast'.args[3])]_vars

\* Connect(source, 1, sink, 1) on unwired nodes of two ports went through:
\* the sink's input 1 is the source's output 1, bit 1 is set on both
\* sides and bit 0 on neither
ConnectWitness ==
    /\ wLast.op = "Connect"
    /\ wLast.node = 1
    /\ wLast.args = <<1, 2, 1>>
    /\ wLast.err = Nil
    /\ inputs[2] = <<0, Made(1, 1)>>
    /\ inputsMask[2] = 2
    /\ outputsMask[1] = 2

(***************************************************************************)
(* Error forwarding: the started nodes of one run, each with its worker    *)
(* (which invokes the handler) and its forwarder, the shared error channel *)
(* with a reader that receives whatever is sent, and the Wait that closes  *)
(* the channel.                                                            *)
(***************************************************************************)
\* the i-th error the handler of node n writes
BaseErr(n, i) == 10 * n + i

\* the node whose handler writes error b
Producer(b) == b \div 10

\* Pipeline.Run has returned: every node has its worker and its forwarder,
\* each counted in the WaitGroup, and the handlers are running
EInit ==
    /\ eWrote = [n \in ENodes |-> <<>>]
    /\ eHpc = [n \in ENodes |-> "handler"]
    /\ eProxy = [n \in ENodes |-> <<>>]
    /\ eProxyClosed = [n \in ENodes |-> FALSE]
    /\ eFpc = [n \in ENodes |-> "recv"]
    /\ eVal = [n \in ENodes |-> 0]
    /\ eGot = <<>>
    /\ eWg = 2 * Cardinality(ENodes)
    /\ eChanClosed = FALSE
    /\ ePanic = FALSE

\* the handler of node n writes its next error: `errChan <- err` on the
\* private channel, which has room for one
EWrite(n) ==
    /\ eHpc[n] = "handler"
    /\ Len(eWrote[n]) < MaxErrs
    /\ Len(eProxy[n]) < 1
    /\ eWrote' = [eWrote EXCEPT ![n] = Append(@, BaseErr(n, Len(@) + 1))]
    /\ eProxy' = [eProxy EXCEPT ![n] = Append(@, BaseErr(n, Len(eWrote[n]) + 1))]
    /\ UNCHANGED <<eHpc, eProxyClosed, eFpc, eVal, eGot, eWg, eChanClosed,
                   ePanic>>
    /\ UNCHANGED notE

\* the handler of node n returns: deferred close(proxyErr) and wg.Done()
EReturn(n) ==
    /\ eHpc[n] = "handler"
    /\ eHpc' = [eHpc EXCEPT ![n] = "done"]
    /\ eProxyClosed' = [eProxyClosed EXCEPT ![n] = TRUE]
    /\ eWg' = eWg - 1
    /\ UNCHANGED <<eWrote, eProxy, eFpc, eVal, eGot, eChanClosed, ePanic>>
    /\ UNCHANGED notE

\* a forwarder that leaves as soon as the private channel is closed
ProxyOverWhenClosed(n) == eProxyClosed[n]

\* `for err := range proxy` ends: the channel is closed and drained
ProxyOver(n) == eProxyClosed[n] /\ eProxy[n] = <<>>

\* the forwarder of node n, `range proxy`: the next error, or the end of
\* the loop and the deferred wg.Done()
EForwardRecv(n) ==
    /\ eFpc[n] = "recv"
    /\ IF ProxyOver(n)
         THEN /\ eFpc' = [eFpc EXCEPT ![n] = "done"]
              /\ eWg' = eWg - 1
              /\ UNCHANGED <<eVal, eProxy>>
         ELSE /\ eProxy[n] # <<>>
              /\ eVal' = [eVal EXCEPT ![n] = Head(eProxy[n])]
              /\ eProxy' = [eProxy EXCEPT ![n] = Tail(@)]
              /\ eFpc' = [eFpc EXCEPT ![n] = "send"]
              /\ eWg' = eWg
    /\ UNCHANGED <<eWrote, eHpc, eProxyClosed, eGot, eChanClosed, ePanic>>
    /\ UNCHANGED notE

\* the forwarder of node n, `errChan <- n.wrapError(err)`: the reader
\* receives it; a send on the closed channel panics
EForwardSend(n) ==
    /\ eFpc[n] = "send"
    /\ ~ePanic
    /\ IF eChanClosed
         THEN /\ ePanic' = TRUE
              /\ UNCHANGED <<eGot, eVal, eFpc>>
         ELSE /\ eGot' = Append(eGot, wrapError(n, Sentinel(eVal[n])))
              /\ eVal' = [eVal EXCEPT ![n] = 0]
              /\ eFpc' = [eFpc EXCEPT ![n] = "recv"]
              /\ ePanic' = ePanic
    /\ UNCHANGED <<eWrote, eHpc, eProxy, eProxyClosed, eWg, eChanClosed>>
    /\ UNCHANGED notE

\* Pipeline.Wait: wg.Wait() returns and the shared channel is closed
EWaitClose ==
    /\ eWg = 0
    /\ ~eChanClosed
    /\ eChanClosed' = TRUE
    /\ UNCHANGED <<eWrote, eHpc, eProxy, eProxyClosed, eFpc, eVal, eGot, eWg,
                   ePanic>>
    /\ UNCHANGED notE

ENext ==
    \/ \E n \in ENodes : EWrite(n)
    \/ \E n \in ENodes : EReturn(n)
    \/ \E n \in ENodes : EForwardRecv(n)
    \/ \E n \in ENodes : EForwardSend(n)
    \/ EWaitClose

\* the nodes are started; the other machines are at rest
ErrInit == EInit /\ POff /\ IOff /\ OOff /\ WOff /\ SOff

ErrSpec == ErrInit /\ [][ENext]_vars

(***************************************************************************)
(* Properties of the error forwarding                                      *)
(***************************************************************************)
\* the errors the reader received under the name of node n, unwrapped
RECURSIVE EFrom(_, _)
EFrom(got, n) ==
    IF got = <<>> THEN <<>>
    ELSE IF Head(got).names = <<n>>
      THEN <<Head(got).base>> \o EFrom(Tail(got), n)
      ELSE EFrom(Tail(got), n)

\* the error the forwarder of node n holds
EHeld(n) == IF eVal[n] = 0 THEN <<>> ELSE <<eVal[n]>>

OEveryItemOnce ==
    SeqBag(oIn) (+) SeqBag(oBuf) (+) OHeld (+) OAccepted (+) SeqBag(oDropped)
        = SeqBag(Upto(oN))

\* C15, as stated: an item `out` accepted fails to reach a destination only
\* when it is the item the worker gave up in the blocking send; when the
\* worker has ended nothing is left in `out`.
LostOnlyInFallback ==
    /\ OEveryItemOnce
    /\ oPc = "done" => oBuf = <<>>

\* C15, amended: an item `out` accepted fails to reach a destination only
\* after a cancellation: it is the one item the worker gave up in the
\* interrupted blocking send, or it sits in the buffer of `out` when the
\* worker has ended on the cancellation. The worker gives up nothing else:
\* it holds no item when it ends, and without cancellation nothing is left
\* in `out` when it ends.
LostOnlyOnCancel ==
    /\ OEveryItemOnce
    /\ oDropped # <<>> =>
         oCancelled /\ oBlocked /\ oPc = "done" /\ Len(oDropped) = 1
    /\ oPc = "done" => oVal = 0
    /\ (oPc = "done" /\ oBuf # <<>>) => oCancelled

\* the worker has ended on a cancellation that found it in the outer
\* select: it gave up no item, an item is left in `out`, and an earlier one
\* reached a destination
LostOnlyOnCancelWitness ==
    /\ oCancelled
    /\ oPc = "done"
    /\ oDropped = <<>>
    /\ oBuf # <<>>
    /\ \E j \in ODests : Accepted(j) # <<>>

(***************************************************************************)
(* Further properties of FanIn                                             *)
(***************************************************************************)
\* every source worker has ended
IWorkersDone == \A k \in ISources : iPc[k] = "done"

\* C16, as stated: once the context is cancelled no worker receives a
\* further item from its source and none sends a further item into the
\* merged stream.
NoTransferAfterCancel ==
    [][iCancelled => (iSrc' = iSrc /\ Len(iOut') <= Len(iOut))]_vars

\* C16, amended: once the context is cancelled every worker ends and the
\* merged stream is then closed, whatever the sources still hold and
\* whether or not anybody reads the merged stream.
MergeEndsOnCancel == iCancelled ~> (IWorkersDone /\ iOutClosed)

\* the context was cancelled, every worker has ended and the merged stream
\* is closed, while a source still holds an item, is not closed, and the
\* merged stream holds an item nobody read
MergeEndsOnCancelWitness ==
    /\ iCancelled
    /\ IWorkersDone
    /\ iOutClosed
    /\ iOut # <<>>
    /\ \E k \in ISources : iSrc[k] # <<>> /\ ~iSrcClosed[k]

\* C17: the worker closes every destination exactly once, when it ends and
\* not before, whether it ends on the end of the input or on cancellation;
\* no destination accepts an item after it was closed; and a worker that
\* ends without cancellation has delivered everything that was written to
\* `out`, which is closed and empty.
SplitClosesOnce ==
    /\ [](\A j \in ODests :
            oCloses[j] = IF oPc = "done" THEN 1 ELSE 0)
    /\ []((oPc = "done" /\ ~oCancelled) =>
            /\ oInClosed
            /\ oBuf = <<>>
            /\ oVal = 0
            /\ OAccepted = SeqBag(Upto(oN)))
    /\ [][\A j \in ODests :
            oCloses[j] > 0 => Accepted(j)' = Accepted(j)]_vars

\* the worker has ended on a cancellation that interrupted its blocking
\* send, and both destinations are closed, once each
SplitClosesOnceWitness ==
    /\ oM = 2
    /\ oPc = "done"
    /\ oCancelled
    /\ oDropped # <<>>
    /\ \A j \in ODests : oCloses[j] = 1

(***************************************************************************)
(* Starting a node that is being wired: one node, calls that bind its      *)
(* inputs (nil channels included) and calls of Node.Run. A panic of        *)
(* Node.Run is recovered by the caller, who goes on.                       *)
(***************************************************************************)
\* the nodes that are wired and started
SNodes == {1}

\* the channels a caller passes to SetInput: nil and a channel
SChans == {0, 1}

\* New: inputs all nil, one output, masks zero, nothing started
SInit ==
    /\ \E ni \in 0..MaxPorts :
         /\ ni <= maxIO
         /\ inputs = [n \in SNodes |-> [i \in 1..ni |-> 0]]
    /\ outputs = [n \in SNodes |-> <<Made(n, 0)>>]
    /\ inputsMask = [n \in SNodes |-> 0]
    /\ outputsMask = [n \in SNodes |-> 0]
    /\ wLast = NoCall
    /\ nStarted = FALSE
    /\ nWg = 0
    /\ nWorkers = 0
    /\ nPanicked = FALSE

\* the slots i of n.inputs with `ch == nil`
Unused(n) == {i \in 0..(Len(inputs[n]) - 1) : inputs[n][i + 1] = 0}

\* a check that finds every input in use
HasUnusedNever(n) == FALSE

\* the loop over n.inputs finds a nil channel
HasUnused(n) == Unused(n) # {}

\* the first slot the loop finds nil
FirstUnused(n) == CHOOSE i \in Unused(n) : \A j \in Unused(n) : i <= j

\* Node.Run: panic on the first nil input; else started.Do, whose function
\* does wg.Add(1) and spawns the worker
CallNodeRun(n) ==
    /\ n \in SNodes
    /\ IF HasUnused(n)
         THEN /\ wLast' = [op |-> "Run", node |-> n,
                           args |-> <<FirstUnused(n)>>,
                           err |-> wrapError(n, Sentinel("unused"))]
              /\ nPanicked' = TRUE
              /\ UNCHANGED <<nStarted, nWg, nWorkers>>
         ELSE /\ wLast' = [op |-> "Run", node |-> n, args |-> <<>>,
                           err |-> Nil]
              /\ nPanicked' = nPanicked
              /\ IF ~nStarted
                   THEN /\ nStarted' = TRUE
                        /\ nWg' = nWg + 1
                        /\ nWorkers' = nWorkers + 1
                   ELSE UNCHANGED <<nStarted, nWg, nWorkers>>
    /\ UNCHANGED <<inputs, outputs, inputsMask, outputsMask>>
    /\ UNCHANGED notS

SNext ==
    \/ \E n \in SNodes, idx \in Idxs, ch \in SChans : CallSetInput(n, idx, ch)
    \/ \E n \in SNodes, k \in 0..(MaxPorts + 1) : CallAutowireInput(n, k)
    \/ \E n \in SNodes : CallNodeRun(n)

\* the node is made; the other machines are at rest
StartInit == SInit /\ POff /\ IOff /\ OOff /\ EOff

StartSpec == StartInit /\ [][SNext]_vars

(***************************************************************************)
(* Properties of the start of a node                                       *)
(***************************************************************************)
\* C18: bit i of the input mask is set exactly when Node.Run finds input
\* slot i bound, and no bit at or above the declared count is set.
OccupancyInvariant ==
    \A n \in SNodes :
        /\ \A i \in 0..(Len(inputs[n]) - 1) :
             Bit(inputsMask[n], i) = 1 <=> i \notin Unused(n)
        /\ inputsMask[n] \div 2^Len(inputs[n]) = 0

\* C19: a call of Node.Run on a node with an input slot still nil panics
\* with an error that carries the node's name and changes nothing else: the
\* wiring, the start latch, the completion counter and the workers stay as
\* they were. A call with every input in use returns without error and
\* leaves exactly one worker, counted once, whatever happened before.
StartFatalOrOnce ==
    [][wLast'.op = "Run" =>
         LET n == wLast'.node IN
         /\ UNCHANGED <<inputs, outputs, inputsMask, outputsMask>>
         /\ IF Unused(n) # {}
              THEN /\ wLast'.err = [names |-> <<n>>, base |-> "unused"]
                   /\ wLast'.args = <<FirstUnused(n)>>
                   /\ nPanicked'
                   /\ UNCHANGED <<nStarted, nWg, nWorkers>>
              ELSE /\ wLast'.err = Nil
                   /\ nStarted'
                   /\ nWorkers' = 1
                   /\ nWg' = 1
                   /\ nPanicked' = nPanicked]_vars

\* a Run that panicked on an unused input, the input wired afterwards, and
\* a later Run that started the one worker
StartFatalOrOnceWitness ==
    /\ wLast.op = "Run"
    /\ wLast.err = Nil
    /\ nPanicked
    /\ nStarted
    /\ nWorkers = 1
    /\ nWg = 1

\* C20: once the reader of the merged stream has stopped receiving and every
\* source has been closed by its producer, which is the state of a node's
\* merge when Wait returns, every source worker ends and `out` is closed,
\* with or without cancellation. Node.Run merges only when the node does
\* not have exactly one input.
NoWorkerOutlivesWait ==
    (/\ iK # 1
     /\ <>[][iGot' = iGot]_vars
     /\ <>[](\A k \in ISources : iSrcClosed[k]))
        => <>(IWorkersDone /\ iOutClosed)
====
